---- MODULE Spec2Model ----
(***************************************************************************)
(* Model of the vmem crate (src/src/lib.rs): VMem<W>, a sparse, word       *)
(* addressed memory backed by BTreeMap<usize, [u8; W]>, its byte view      *)
(* (read_at / write_at), its iterators, and diff / patch / From<&[u8]>.    *)
(***************************************************************************)
EXTENDS Integers, Sequences, FiniteSets, TLC

\* memory, len: the fields of the VMem; ret: the last call, its arguments and
\* its result; iter: the iterator in use; input: the argument at hand of a
\* pure function; touched: the in-bounds addresses a write has targeted;
\* leaves: the keys held by each leaf of the B-tree of memory, in ascending
\* order of the leaves (the keys of memory in no leaf are in the root)
VARIABLES memory, len, ret, iter, input, touched, leaves

vars == <<memory, len, ret, iter, input, touched, leaves>>

(* ------------------------------ bounds --------------------------------- *)
\* the word width of the VMem<W> the model instantiates
W == 2
\* largest length given to VMem::new; addresses range over 0..MaxLen
MaxLen == 2
\* longest buffer handed to read_at / write_at / from
MaxBufLen == 3
\* largest number of pairs in a changeset handed to patch
MaxPatch == 2
\* calls to next() made after an iterator is exhausted
MaxExtraNext == 2
\* longest byte sequence handed to VMem::from
MaxFromLen == 6
\* largest length of the two stores handed to diff
MaxDiffLen == 3
\* largest length of the stores whose content is chunked
MaxChunkLen == 3
\* largest chunk_size handed to chunks_adjacent_content
MaxChunkSize == 3
\* largest length of the second store handed to diff among the read-only
\* operations
MaxPeerLen == 1
\* largest length of the store whose mutable references are kept
MaxKeptLen == 12
\* largest number of addresses assigned through kept references
MaxAssign == 1

(* --------------------------- value domains ----------------------------- *)
\* the bytes callers supply: zero and one non-zero value (the code copies
\* bytes and compares them, and does nothing else with them)
Byte == {0, 1}
Word == [1..W -> Byte]
Addr == 0..MaxLen
Bufs == UNION {[1..n -> Byte] : n \in 0..MaxBufLen}
\* the words of the changesets and of the stores handed to the pure
\* functions: the zero word, the all-one word and the word 1, 0, .., 0
SampleWord ==
  {[i \in 1..W |-> 0], [i \in 1..W |-> 1], [i \in 1..W |-> IF i = 1 THEN 1 ELSE 0]}
\* the changesets handed to patch: at most MaxPatch pairs
Changesets ==
  UNION {[D -> SampleWord] :
           D \in {S \in SUBSET Addr : Cardinality(S) <= MaxPatch}}
\* the stores of length at most n whose words are sample words; each is
\* reached from new(length) by write_word
Stores(n) ==
  UNION {{[memory |-> m, len |-> length] :
            m \in UNION {[D -> SampleWord] : D \in SUBSET (0..(length - 1))}} :
         length \in 0..n}

None == [tag |-> "None"]
Some(x) == [tag |-> "Some", val |-> x]
Ok(x) == [tag |-> "Ok", val |-> x]
Err(e) == [tag |-> "Err", err |-> e]
Unit == <<>>

Min(S) == CHOOSE x \in S : \A y \in S : x <= y
Max(S) == CHOOSE x \in S : \A y \in S : x >= y
MinOf(a, b) == IF a <= b THEN a ELSE b

\* [0x00; W]
ZeroWord == [i \in 1..W |-> 0]

(* ------------------------- BTreeMap primitives ------------------------- *)
\* BTreeMap::new()
EmptyMap == [a \in {} |-> ZeroWord]

\* mutant of insert: an occupied entry keeps its word (entry().or_insert())
insert_if_vacant(m, addr, word) ==
  [a \in (DOMAIN m) \cup {addr} |-> IF a \in DOMAIN m THEN m[a] ELSE word]

\* BTreeMap::insert(addr, word): insert or overwrite
insert(m, addr, word) ==
  [a \in (DOMAIN m) \cup {addr} |-> IF a = addr THEN word ELSE m[a]]

\* <&mut [u8] as Write>::write(src): copy src over the leading bytes of dst
write(dst, src) ==
  [i \in 1..Len(dst) |-> IF i <= Len(src) THEN src[i] ELSE dst[i]]

(* ---------------------------- VMem methods ----------------------------- *)
\* VMem::new(length)
new(length) == [memory |-> EmptyMap, len |-> length]

\* mutant of read_word: an absent word reads as None (memory.get(&addr)
\* returned as it is)
read_word_get(m, l, addr) ==
  IF addr < l /\ addr \in DOMAIN m THEN Some(m[addr]) ELSE None

\* VMem::read_word(addr)
read_word(m, l, addr) ==
  IF addr < l
    THEN IF addr \in DOMAIN m THEN Some(m[addr]) ELSE Some(ZeroWord)
    ELSE None

\* mutant of write_word: the zero word is stored by removing the entry
write_word_sparse(m, l, word, addr) ==
  IF addr < l
    THEN [memory |-> IF word = ZeroWord
                       THEN [a \in (DOMAIN m) \ {addr} |-> m[a]]
                       ELSE insert(m, addr, word),
          result |-> Ok(Unit)]
    ELSE [memory |-> m, result |-> Err("AddrNotAvailable")]

\* mutant of write_word: the bound check is off by one (addr <= len)
write_word_inclusive(m, l, word, addr) ==
  IF addr <= l
    THEN [memory |-> insert(m, addr, word), result |-> Ok(Unit)]
    ELSE [memory |-> m, result |-> Err("AddrNotAvailable")]

\* VMem::write_word(word, addr): the store afterwards and the result
write_word(m, l, word, addr) ==
  IF addr < l
    THEN [memory |-> insert(m, addr, word), result |-> Ok(Unit)]
    ELSE [memory |-> m, result |-> Err("AddrNotAvailable")]

\* buf.chunks_exact(W): the i-th full chunk (i from 0), their number, and the
\* remainder
chunks_exact_count(buf) == Len(buf) \div W
chunks_exact(buf, i) == SubSeq(buf, i * W + 1, i * W + W)
remainder_of(buf) == SubSeq(buf, chunks_exact_count(buf) * W + 1, Len(buf))

\* write_at, the loop over the full chunks: chunk i goes to addr + i when that
\* address is in bounds, and the address advances either way
RECURSIVE write_chunks(_, _, _, _, _)
write_chunks(m, l, buf, addr, i) ==
  IF i >= chunks_exact_count(buf) THEN m
  ELSE write_chunks(IF addr + i < l THEN insert(m, addr + i, chunks_exact(buf, i))
                                    ELSE m,
                    l, buf, addr, i + 1)

\* mutant of write_remainder: the partial chunk replaces the whole word
write_remainder_clobber(m, l, remainder, addr) ==
  IF remainder # <<>> /\ addr < l
    THEN insert(m, addr, write(ZeroWord, remainder))
    ELSE m

\* write_at, the trailing partial chunk: merged into the word at addr
write_remainder(m, l, remainder, addr) ==
  IF remainder # <<>> /\ addr < l
    THEN IF addr \notin DOMAIN m
           THEN insert(m, addr, write(ZeroWord, remainder))
           ELSE insert(m, addr, write(m[addr], remainder))
    ELSE m

\* VMem::write_at(buf, addr): the store's map afterwards
write_at(m, l, buf, addr) ==
  write_remainder(write_chunks(m, l, buf, addr, 0), l, remainder_of(buf),
                  addr + chunks_exact_count(buf))

\* mutant of read_chunks: a chunk whose address is out of bounds is filled
\* with zeros
RECURSIVE read_chunks_zero_fill(_, _, _, _, _)
read_chunks_zero_fill(m, l, buf, addr, i) ==
  IF i >= chunks_exact_count(buf) THEN buf
  ELSE read_chunks_zero_fill(m, l,
         [j \in 1..Len(buf) |->
            IF j > i * W /\ j <= i * W + W
              THEN IF addr + i < l THEN read_word(m, l, addr + i).val[j - i * W]
                                   ELSE 0
              ELSE buf[j]],
         addr, i + 1)

\* read_at, the loop over the full chunks of the caller's buffer
RECURSIVE read_chunks(_, _, _, _, _)
read_chunks(m, l, buf, addr, i) ==
  IF i >= chunks_exact_count(buf) THEN buf
  ELSE read_chunks(m, l,
                   IF addr + i < l
                     THEN [j \in 1..Len(buf) |->
                             IF j > i * W /\ j <= i * W + W
                               THEN read_word(m, l, addr + i).val[j - i * W]
                               ELSE buf[j]]
                     ELSE buf,
                   addr, i + 1)

\* <&mut [u8] as io::Write>::write(data) on the slice variable dst: the
\* leading bytes of data that fit are copied, and dst is left as the part of
\* the slice after the bytes written
slice_write(dst, data) ==
  LET amt == MinOf(Len(data), Len(dst))
  IN [written |-> SubSeq(data, 1, amt), rest |-> SubSeq(dst, amt + 1, Len(dst))]

\* VMem::read_at(buf, addr): the buffer afterwards and the result. The write
\* of the trailing partial chunk advances remainder, so the length added to
\* the count is what is left of it
read_at(m, l, buf, addr) ==
  LET n == chunks_exact_count(buf)
      full == read_chunks(m, l, buf, addr, 0)
      last == addr + n
      rem == remainder_of(buf)
      fill == rem # <<>> /\ last < l
      w == slice_write(rem, read_word(m, l, last).val)
      filled == IF fill
                  THEN [j \in 1..Len(buf) |->
                          IF j > n * W /\ j <= n * W + Len(w.written)
                            THEN w.written[j - n * W]
                            ELSE full[j]]
                  ELSE full
      remainder == IF fill THEN w.rest ELSE rem
  IN [buf |-> filled, result |-> Ok(last * W + Len(remainder))]

\* mutant of patch: a pair whose word is all-zero removes the entry
RECURSIVE patch_remove_zero(_, _, _)
patch_remove_zero(m, l, cs) ==
  IF DOMAIN cs = {} THEN [memory |-> m, result |-> Ok(Unit)]
  ELSE LET addr == Min(DOMAIN cs)
           r == write_word(m, l, cs[addr], addr)
           kept == IF cs[addr] = ZeroWord
                     THEN [a \in (DOMAIN r.memory) \ {addr} |-> r.memory[a]]
                     ELSE r.memory
       IN IF r.result.tag = "Err" THEN r
          ELSE patch_remove_zero(kept, l, [a \in (DOMAIN cs) \ {addr} |-> cs[a]])

\* mutant of patch: the pairs are applied in descending address order
RECURSIVE patch_descending(_, _, _)
patch_descending(m, l, cs) ==
  IF DOMAIN cs = {} THEN [memory |-> m, result |-> Ok(Unit)]
  ELSE LET addr == Max(DOMAIN cs)
           r == write_word(m, l, cs[addr], addr)
       IN IF r.result.tag = "Err" THEN r
          ELSE patch_descending(r.memory, l,
                                [a \in (DOMAIN cs) \ {addr} |-> cs[a]])

\* VMem::patch(patch): pairs applied in ascending address order through
\* write_word, stopping at the first error
RECURSIVE patch(_, _, _)
patch(m, l, cs) ==
  IF DOMAIN cs = {} THEN [memory |-> m, result |-> Ok(Unit)]
  ELSE LET addr == Min(DOMAIN cs)
           r == write_word(m, l, cs[addr], addr)
       IN IF r.result.tag = "Err" THEN r
          ELSE patch(r.memory, l, [a \in (DOMAIN cs) \ {addr} |-> cs[a]])

\* mutant of iter_next: an absent word is inserted as zero, as IterMut::next
\* does
iter_next_materialize(m, length, index) ==
  IF index < length
    THEN [item |-> IF index \in DOMAIN m THEN Some(m[index]) ELSE Some(ZeroWord),
          index |-> index + 1,
          memory |-> IF index \in DOMAIN m THEN m ELSE insert(m, index, ZeroWord)]
    ELSE [item |-> None, index |-> index, memory |-> m]

\* Iter::next: the item yielded at index, the index afterwards, and the map
\* the iterator borrows, which it only reads
iter_next(m, length, index) ==
  IF index < length
    THEN [item |-> IF index \in DOMAIN m THEN Some(m[index]) ELSE Some(ZeroWord),
          index |-> index + 1, memory |-> m]
    ELSE [item |-> None, index |-> index, memory |-> m]

\* mutant of into_iter_next: the bound check is off by one (index <= length)
into_iter_next_inclusive(m, length, index) ==
  IF index <= length
    THEN [item |-> IF index \in DOMAIN m THEN Some(m[index]) ELSE Some(ZeroWord),
          index |-> index + 1]
    ELSE [item |-> None, index |-> index]

\* IntoIter::next, on the map the iterator owns
into_iter_next(m, length, index) ==
  IF index < length
    THEN [item |-> IF index \in DOMAIN m THEN Some(m[index]) ELSE Some(ZeroWord),
          index |-> index + 1]
    ELSE [item |-> None, index |-> index]

\* mutant of diff_loop: only the words stored in new are compared (a walk
\* over new's entries instead of its dense view)
RECURSIVE diff_loop_content(_, _, _, _)
diff_loop_content(vold, vnew, addr, acc) ==
  LET old_word == iter_next(vold.memory, vold.len, addr).item
      new_word == IF old_word = None THEN None
                  ELSE iter_next(vnew.memory, vnew.len, addr).item
  IN IF old_word = None \/ new_word = None THEN acc
     ELSE diff_loop_content(vold, vnew, addr + 1,
                            IF addr \in DOMAIN vnew.memory
                                 /\ old_word.val # new_word.val
                              THEN insert(acc, addr, new_word.val) ELSE acc)

\* VMem::diff, the loop over old.iter().zip(new.iter()).enumerate(): zip asks
\* old first and new only when old yielded an item
RECURSIVE diff_loop(_, _, _, _)
diff_loop(vold, vnew, addr, acc) ==
  LET old_word == iter_next(vold.memory, vold.len, addr).item
      new_word == IF old_word = None THEN None
                  ELSE iter_next(vnew.memory, vnew.len, addr).item
  IN IF old_word = None \/ new_word = None THEN acc
     ELSE diff_loop(vold, vnew, addr + 1,
                    IF old_word.val # new_word.val
                      THEN insert(acc, addr, new_word.val) ELSE acc)

\* mutant of diff: the operands are swapped
diff_swapped(vold, vnew) == diff_loop(vnew, vold, 0, EmptyMap)

\* VMem::diff(old, new)
diff(vold, vnew) == diff_loop(vold, vnew, 0, EmptyMap)

\* impl From<&[u8]> for VMem<W>
RECURSIVE from_loop(_, _, _, _)
from_loop(m, l, bytes, addr) ==
  IF addr >= chunks_exact_count(bytes) THEN m
  ELSE LET word == chunks_exact(bytes, addr)
       IN from_loop(IF word # ZeroWord THEN write_word(m, l, word, addr).memory
                                       ELSE m,
                    l, bytes, addr + 1)

from(bytes) ==
  LET length == (Len(bytes) \div W) + (IF Len(bytes) % W # 0 THEN 1 ELSE 0)
  IN [memory |-> from_loop(EmptyMap, length, bytes, 0), len |-> length]

\* mutant of iter_mut_next: the entry is looked up or inserted before the
\* bound is checked
iter_mut_next_unchecked(m, length, index) ==
  [memory |-> IF index \notin DOMAIN m THEN insert(m, index, ZeroWord) ELSE m,
   item |-> IF index < length THEN Some(index) ELSE None,
   index |-> index + 1]

\* IterMut::next: an absent word at index is inserted as zero, the item is a
\* reference to the word at index (modelled by its address), and index
\* advances also when the iterator is exhausted
iter_mut_next(m, length, index) ==
  IF index < length
    THEN [memory |-> IF index \notin DOMAIN m THEN insert(m, index, ZeroWord)
                                             ELSE m,
          item |-> Some(index), index |-> index + 1]
    ELSE [memory |-> m, item |-> None, index |-> index + 1]

\* memory.iter(): the entries of the map in ascending address order
RECURSIVE btree_iter(_)
btree_iter(m) ==
  IF DOMAIN m = {} THEN <<>>
  ELSE LET k == Min(DOMAIN m)
       IN <<[addr |-> k, word |-> m[k]]>>
            \o btree_iter([a \in (DOMAIN m) \ {k} |-> m[a]])

\* mutant of chunk_loop: the entry is taken with next() in place of peek(), so
\* an entry whose address is not start + i is consumed and dropped
RECURSIVE chunk_loop_no_peek(_, _, _, _, _, _)
chunk_loop_no_peek(entries, pos, start, i, chunk_size, chunk) ==
  IF i >= chunk_size THEN [chunk |-> chunk, pos |-> pos]
  ELSE IF pos < Len(entries)
         THEN chunk_loop_no_peek(entries, pos + 1, start, i + 1, chunk_size,
                IF entries[pos + 1].addr = start + i
                  THEN Append(chunk, entries[pos + 1]) ELSE chunk)
         ELSE chunk_loop_no_peek(entries, pos, start, i + 1, chunk_size, chunk)

\* ChunksAdjacentContent::next, the loop for i in 1..chunk_size: the peeked
\* entry is taken when its address is start + i; pos entries are consumed
RECURSIVE chunk_loop(_, _, _, _, _, _)
chunk_loop(entries, pos, start, i, chunk_size, chunk) ==
  IF i >= chunk_size THEN [chunk |-> chunk, pos |-> pos]
  ELSE IF pos < Len(entries) /\ entries[pos + 1].addr = start + i
         THEN chunk_loop(entries, pos + 1, start, i + 1, chunk_size,
                         Append(chunk, entries[pos + 1]))
         ELSE chunk_loop(entries, pos, start, i + 1, chunk_size, chunk)

\* ChunksAdjacentContent::next
chunks_next(entries, pos, chunk_size) ==
  IF pos < Len(entries)
    THEN LET r == chunk_loop(entries, pos + 1, entries[pos + 1].addr, 1,
                             chunk_size, <<entries[pos + 1]>>)
         IN [item |-> Some(r.chunk), pos |-> r.pos]
    ELSE [item |-> None, pos |-> pos]

(* ----------------- the nodes of the BTreeMap of memory ------------------ *)
\* std's B-tree: a node holds at most CAPACITY = 2 * B - 1 entries
B == 6
CAPACITY == 2 * B - 1
\* the number of keys of S below k (the index of the edge where k goes)
rank(S, k) == Cardinality({x \in S : x < k})
\* std's splitpoint(edge_idx): the index of the entry of a full node that
\* moves up to the parent, and whether the new entry goes to the left part
splitpoint(edge_idx) ==
  IF edge_idx < B - 1 THEN [middle |-> B - 2, left |-> TRUE]
  ELSE IF edge_idx = B - 1 THEN [middle |-> B - 1, left |-> TRUE]
  ELSE IF edge_idx = B THEN [middle |-> B - 1, left |-> FALSE]
  ELSE [middle |-> B, left |-> FALSE]
\* the insertion of the key k, absent so far, into the map of the keys keys
\* laid out in the leaves lv: the leaves afterwards, and the keys whose words
\* the insertion has moved to another place in memory (the entries shifted
\* within the leaf and, when the leaf was full, the entries taken out of it
\* by the split and the entries of the root shifted to make room for the
\* entry that goes up). The root keeps fewer than CAPACITY keys within the
\* bounds.
leaf_insert(lv, keys, k) ==
  LET root == keys \ UNION {lv[j] : j \in 1..Len(lv)}
      i == rank(root, k) + 1
      L == lv[i]
      shifted == {x \in L : x > k}
  IN IF Cardinality(L) < CAPACITY
       THEN [leaves |-> [lv EXCEPT ![i] = L \cup {k}], moved |-> shifted]
       ELSE LET sp == splitpoint(rank(L, k))
                lo == {x \in L : rank(L, x) < sp.middle}
                hi == {x \in L : rank(L, x) > sp.middle}
            IN [leaves |-> SubSeq(lv, 1, i - 1)
                           \o <<IF sp.left THEN lo \cup {k} ELSE lo,
                                IF sp.left THEN hi ELSE hi \cup {k}>>
                           \o SubSeq(lv, i + 1, Len(lv)),
                moved |-> shifted \cup {x \in L : rank(L, x) >= sp.middle}
                          \cup {x \in root : x > k}]
\* the leaves after the keys of added are inserted in ascending order, as
\* write_at, patch, from and the mutable iterator insert them
RECURSIVE grow(_, _, _)
grow(lv, keys, added) ==
  IF added = {} THEN lv
  ELSE LET k == Min(added)
       IN grow(leaf_insert(lv, keys, k).leaves, keys \cup {k}, added \ {k})
\* the leaves of a map built by ascending insertion of the keys of m
leaves_of(m) == grow(<<{}>>, {}, DOMAIN m)

(* ------------------- the store and its mutable borrow ------------------ *)
NoIter == [kind |-> "none"]
NoCall == [op |-> "none"]
\* no call is in progress and no iterator borrows the store
Idle == ret = NoCall /\ iter = NoIter
\* no call is in progress and the store is not borrowed exclusively: calls
\* that take &self can be made, also while iter() or
\* chunks_adjacent_content() borrows the store
CanRead == ret = NoCall /\ iter.kind \in {"none", "iter", "chunks"}
\* the leaves after the step has inserted the keys it adds to memory
grown == grow(leaves, DOMAIN memory, (DOMAIN memory') \ (DOMAIN memory))
Here == [memory |-> memory, len |-> len]
\* the addresses of the chunks of buf in a write_at or read_at at addr, the
\* trailing partial chunk included
chunk_addrs(buf, addr) ==
  {addr + i : i \in 0..((Len(buf) + W - 1) \div W - 1)}

\* VMem::new(length) or VMem::from(bytes)
Init ==
  /\ \/ \E length \in 0..MaxLen :
          /\ memory = new(length).memory
          /\ len = new(length).len
          /\ ret = [op |-> "new", length |-> length]
          /\ touched = {}
     \/ \E bytes \in Bufs :
          /\ memory = from(bytes).memory
          /\ len = from(bytes).len
          /\ ret = [op |-> "from", bytes |-> bytes]
          /\ touched = DOMAIN from(bytes).memory
  /\ iter = NoIter
  /\ input = <<>>
  /\ leaves = leaves_of(memory)

ReadWord ==
  /\ CanRead
  /\ \E addr \in Addr :
       ret' = [op |-> "read_word", addr |-> addr,
               result |-> read_word(memory, len, addr)]
  /\ UNCHANGED <<memory, len, iter, input, touched, leaves>>

WriteWord ==
  /\ Idle
  /\ \E word \in Word, addr \in Addr :
       LET r == write_word(memory, len, word, addr)
       IN /\ memory' = r.memory
          /\ ret' = [op |-> "write_word", word |-> word, addr |-> addr,
                     result |-> r.result, pre |-> Here]
          /\ touched' = touched \cup ({addr} \cap 0..(len - 1))
  /\ leaves' = grown
  /\ UNCHANGED <<len, iter, input>>

\* read_at on a buffer drawn from bufs
ReadAtOf(bufs) ==
  /\ CanRead
  /\ \E buf \in bufs, addr \in Addr :
       LET r == read_at(memory, len, buf, addr)
       IN ret' = [op |-> "read_at", buf |-> buf, addr |-> addr,
                  out |-> r.buf, result |-> r.result]
  /\ UNCHANGED <<memory, len, iter, input, touched, leaves>>

ReadAt == ReadAtOf(Bufs)

WriteAt ==
  /\ Idle
  /\ \E buf \in Bufs, addr \in Addr :
       /\ memory' = write_at(memory, len, buf, addr)
       /\ ret' = [op |-> "write_at", buf |-> buf, addr |-> addr, pre |-> Here]
       /\ touched' = touched \cup (chunk_addrs(buf, addr) \cap 0..(len - 1))
  /\ leaves' = grown
  /\ UNCHANGED <<len, iter, input>>

Patch ==
  /\ Idle
  /\ \E cs \in Changesets :
       LET r == patch(memory, len, cs)
       IN /\ memory' = r.memory
          /\ ret' = [op |-> "patch", patch |-> cs, result |-> r.result,
                     pre |-> Here]
          /\ touched' = touched \cup ((DOMAIN cs) \cap 0..(len - 1))
  /\ leaves' = grown
  /\ UNCHANGED <<len, iter, input>>

\* VMem::iter_mut(): the exclusive borrow starts. refs: the addresses whose
\* reference next() has yielded (the references live as long as the borrow,
\* lib.rs:301 extends their lifetime past the call of next); dangling: the
\* addresses among them whose word a later insertion has moved
IterMut ==
  /\ Idle
  /\ iter' = [kind |-> "iter_mut", length |-> len, index |-> 0, item |-> None,
              start |-> memory, assigned |-> EmptyMap,
              refs |-> {}, dangling |-> {}]
  /\ ret' = [op |-> "iter_mut"]
  /\ UNCHANGED <<memory, len, input, touched, leaves>>

IterMutNext ==
  /\ iter.kind = "iter_mut"
  /\ iter.index < iter.length + MaxExtraNext
  /\ LET r == iter_mut_next(memory, iter.length, iter.index)
         moved == IF iter.index \in (DOMAIN r.memory) \ (DOMAIN memory)
                    THEN leaf_insert(leaves, DOMAIN memory, iter.index).moved
                    ELSE {}
     IN /\ memory' = r.memory
        /\ iter' = [iter EXCEPT !.index = r.index, !.item = r.item,
                                !.refs = IF r.item = None THEN @
                                         ELSE @ \cup {r.item.val},
                                !.dangling = @ \cup (iter.refs \cap moved)]
        /\ ret' = [op |-> "iter_mut_next", index |-> iter.index,
                   result |-> r.item, pre |-> Here]
  /\ leaves' = grown
  /\ UNCHANGED <<len, input, touched>>

\* *r = word through one of the references next() has yielded, the addresses
\* and the words drawn from addrs and words. Through a reference whose word
\* has not moved the word is stored. A dangling reference points into the
\* leaf its word was taken out of: the behaviour is undefined, the store is
\* left as it was or holds the word. iter.assigned keeps the last word
\* assigned to each address
Assign(addrs, words) ==
  /\ iter.kind = "iter_mut"
  /\ \E a \in addrs \cap iter.refs, word \in words :
       /\ \/ memory' = [memory EXCEPT ![a] = word]
          \/ a \in iter.dangling /\ memory' = memory
       /\ iter' = [iter EXCEPT !.assigned = insert(@, a, word)]
       /\ ret' = [op |-> "assign", addr |-> a, word |-> word]
       /\ touched' = touched \cup {a}
  /\ UNCHANGED <<len, input, leaves>>

\* an assignment through any reference yielded so far
IterMutAssign == Assign(iter.refs, SampleWord)

\* the iterator and the references it yielded are dropped and the exclusive
\* borrow ends
IterMutDrop ==
  /\ iter.kind = "iter_mut"
  /\ iter' = NoIter
  /\ ret' = [op |-> "drop"]
  /\ UNCHANGED <<memory, len, input, touched, leaves>>

\* the caller has taken the result of the last call
Return ==
  /\ iter.kind # "iter_mut"
  /\ ret # NoCall
  /\ ret' = NoCall
  /\ UNCHANGED <<memory, len, iter, input, touched, leaves>>

Next ==
  \/ Return
  \/ ReadWord
  \/ WriteWord
  \/ ReadAt
  \/ WriteAt
  \/ Patch
  \/ IterMut
  \/ IterMutNext
  \/ IterMutAssign
  \/ IterMutDrop

Spec == Init /\ [][Next]_vars

(* ------------------- references of iter_mut kept ----------------------- *)
\* VMem::new(length), for lengths that fill a leaf of the B-tree and more
InitKept ==
  /\ \E length \in 0..MaxKeptLen :
       /\ memory = new(length).memory
       /\ len = new(length).len
       /\ ret = [op |-> "new", length |-> length]
  /\ touched = {}
  /\ iter = NoIter
  /\ input = <<>>
  /\ leaves = leaves_of(memory)

\* an assignment of the all-one word through any reference yielded so far,
\* to at most MaxAssign addresses of the store
IterMutAssignKept ==
  Assign({a \in 0..(len - 1) : Cardinality(touched \cup {a}) <= MaxAssign},
         {[i \in 1..W |-> 1]})

NextKept ==
  \/ Return
  \/ IterMut
  \/ IterMutNext
  \/ IterMutAssignKept
  \/ IterMutDrop

SpecKept == InitKept /\ [][NextKept]_vars

(* ------------------------- claims of the store ------------------------- *)
\* C1: round trip. A write_word(w, a) with a < len returns Ok, and read_word(a)
\* on the store it leaves returns Some(w), whatever a held before.
RoundTrip ==
  (ret.op = "write_word" /\ ret.addr < len)
    => /\ ret.result.tag = "Ok"
       /\ read_word(memory, len, ret.addr) = Some(ret.word)

\* a word has been written over a different word stored earlier at a
RoundTripWitness ==
  /\ ret.op = "write_word"
  /\ ret.addr < len
  /\ ret.addr \in DOMAIN ret.pre.memory
  /\ ret.pre.memory[ret.addr] # ret.word
  /\ read_word(memory, len, ret.addr) = Some(ret.word)

\* C2: bounds asymmetry. For addr >= len read_word returns None and write_word
\* returns the address error and leaves entries and length as they were; for
\* addr < len read_word returns Some and write_word returns Ok.
BoundsAsymmetry ==
  /\ ret.op = "read_word"
       => IF ret.addr >= len THEN ret.result = None
                             ELSE ret.result.tag = "Some"
  /\ ret.op = "write_word"
       => IF ret.addr >= len
            THEN /\ ret.result.tag = "Err"
                 /\ ret.result.err = "AddrNotAvailable"
                 /\ memory = ret.pre.memory
                 /\ len = ret.pre.len
            ELSE ret.result.tag = "Ok"

\* a write at address len of a store that holds entries has been refused
BoundsAsymmetryWitness ==
  /\ ret.op = "write_word"
  /\ ret.addr = len
  /\ DOMAIN memory # {}
  /\ ret.result.tag = "Err"
  /\ read_word(memory, len, ret.addr) = None

\* C3: partial-chunk preservation. After write_at with a trailing chunk of k
\* bytes, 0 < k < W, at an in-bounds address a, the first k bytes of the word at
\* a are the chunk and the others are what read_word(a) returned before.
PartialChunkPreserved ==
  ret.op = "write_at"
    => LET n == Len(ret.buf) \div W
           k == Len(ret.buf) % W
           a == ret.addr + n
       IN (k > 0 /\ a < len)
            => /\ a \in DOMAIN memory
               /\ \A i \in 1..W :
                    memory[a][i] =
                      IF i <= k
                        THEN ret.buf[n * W + i]
                        ELSE read_word(ret.pre.memory, ret.pre.len, a).val[i]

\* a full chunk and a partial chunk have been written, the partial one over a
\* stored word whose bytes beyond the chunk are not all zero
PartialChunkWitness ==
  /\ ret.op = "write_at"
  /\ Len(ret.buf) \div W > 0
  /\ Len(ret.buf) % W > 0
  /\ LET a == ret.addr + (Len(ret.buf) \div W)
     IN /\ a < len
        /\ a \in DOMAIN ret.pre.memory
        /\ \E i \in 1..W : i > Len(ret.buf) % W /\ ret.pre.memory[a][i] # 0
        /\ \E i \in 1..W : i <= Len(ret.buf) % W
                             /\ ret.pre.memory[a][i] # memory[a][i]

\* C6: key-range invariant. Every key present in the store is < len.
KeyRange == \A k \in DOMAIN memory : k >= 0 /\ k < len

\* next() has been called on an exhausted mutable iterator of a non-empty
\* store, all of whose words are materialized
KeyRangeWitness ==
  /\ iter.kind = "iter_mut"
  /\ ret.op = "iter_mut_next"
  /\ ret.index > iter.length
  /\ ret.result = None
  /\ len > 0
  /\ DOMAIN memory = 0..(len - 1)

\* C9: patch is applied in ascending address order and is not atomic. With a
\* key >= len in the changeset patch returns the address error, every pair
\* below the first failing address is written and no pair at or after it is;
\* with all keys < len patch returns Ok and every pair is written.
PatchAscendingNotAtomic ==
  ret.op = "patch"
    => LET cs == ret.patch
           failing == {k \in DOMAIN cs : k >= len}
       IN IF failing # {}
            THEN /\ ret.result.tag = "Err"
                 /\ ret.result.err = "AddrNotAvailable"
                 /\ \A k \in DOMAIN cs :
                      IF k < Min(failing)
                        THEN k \in DOMAIN memory /\ memory[k] = cs[k]
                        ELSE k \notin DOMAIN memory
            ELSE /\ ret.result.tag = "Ok"
                 /\ \A k \in DOMAIN cs :
                      k \in DOMAIN memory /\ memory[k] = cs[k]

\* a patch has failed after writing a pair that changed the target
PatchNotAtomicWitness ==
  /\ ret.op = "patch"
  /\ ret.result.tag = "Err"
  /\ \E k \in DOMAIN ret.patch :
       /\ k < len
       /\ read_word(ret.pre.memory, ret.pre.len, k) # Some(ret.patch[k])
       /\ read_word(memory, len, k) = Some(ret.patch[k])

\* C11: mutable materialization. After k calls to next on the mutable iterator
\* (k <= len) the key set is the key set before iteration united with
\* {0..k-1}; a word assigned through the yielded reference is the word stored,
\* a word present before and not assigned keeps its value, a word absent
\* before and not assigned is zero; when the iterator is consumed the store
\* holds len entries.
MutableMaterialization ==
  iter.kind = "iter_mut"
    => LET k == MinOf(iter.index, iter.length)
       IN /\ DOMAIN memory = (DOMAIN iter.start) \cup 0..(k - 1)
          /\ \A a \in DOMAIN memory :
               read_word(memory, len, a) =
                 Some(IF a \in DOMAIN iter.assigned THEN iter.assigned[a]
                      ELSE IF a \in DOMAIN iter.start THEN iter.start[a]
                      ELSE ZeroWord)
          /\ iter.index >= iter.length => Cardinality(DOMAIN memory) = len

\* C12: byte-view round trip. After write_at(b, a), read_at at a into any
\* buffer as long as b returns Ok; a byte whose chunk address is < len is the
\* byte of b, a byte whose chunk address is >= len is what the read buffer
\* held before.
ByteViewRoundTrip ==
  ret.op = "write_at"
    => \A rbuf \in Bufs :
         Len(rbuf) = Len(ret.buf)
           => LET r == read_at(memory, len, rbuf, ret.addr)
              IN /\ r.result.tag = "Ok"
                 /\ \A j \in 1..Len(rbuf) :
                      r.buf[j] = IF ret.addr + ((j - 1) \div W) < len
                                   THEN ret.buf[j]
                                   ELSE rbuf[j]

\* a non-zero full chunk has been written in bounds and the trailing partial
\* chunk fell past the end; reading back into a buffer of ones gives the full
\* chunk and leaves the ones past the end
ByteViewRoundTripWitness ==
  /\ ret.op = "write_at"
  /\ Len(ret.buf) > W
  /\ Len(ret.buf) % W # 0
  /\ ret.addr + (Len(ret.buf) \div W) = len
  /\ \E j \in 1..W : ret.buf[j] # 0
  /\ LET rbuf == [j \in 1..Len(ret.buf) |-> 1]
         r == read_at(memory, len, rbuf, ret.addr)
     IN /\ \A j \in 1..Len(rbuf) :
             r.buf[j] = IF j <= (Len(ret.buf) \div W) * W THEN ret.buf[j] ELSE 1
        /\ r.buf # ret.buf

\* C13: default zero. Every in-bounds address that no write_word, write_at
\* chunk, patch pair or assignment through a mutable-iterator reference has
\* targeted reads as the zero word, whether it is absent from the store or
\* was materialized by mutable iteration.
DefaultZero ==
  \A a \in 0..(len - 1) :
    a \notin touched => read_word(memory, len, a) = Some(ZeroWord)

\* the mutable iterator has materialized an address nothing wrote to, and
\* another address nothing wrote to is absent
DefaultZeroWitness ==
  /\ ret.op = "iter_mut_next"
  /\ \E a, b \in 0..(len - 1) :
       /\ a \notin touched /\ a \in DOMAIN memory
       /\ b \notin touched /\ b \notin DOMAIN memory
       /\ read_word(memory, len, a) = Some(ZeroWord)
       /\ read_word(memory, len, b) = Some(ZeroWord)

\* C14: monotone store. No operation changes len, and no operation removes a
\* key from the store.
MonotoneStore ==
  [][len' = len /\ (DOMAIN memory) \subseteq (DOMAIN memory')]_vars

\* the zero word has been written over a non-zero word and the entry is still
\* there
MonotoneStoreWitness ==
  /\ ret.op = "write_word"
  /\ ret.word = ZeroWord
  /\ ret.addr \in DOMAIN ret.pre.memory
  /\ ret.pre.memory[ret.addr] # ZeroWord
  /\ DOMAIN memory = DOMAIN ret.pre.memory
  /\ memory[ret.addr] = ZeroWord
  /\ len = ret.pre.len

\* C19: read_at return value. read_at on a buffer of n bytes at address a
\* returns Ok((a + n div W) * W + n mod W), whatever len, the store and the
\* number of bytes copied are.
ReadAtCount ==
  ret.op = "read_at"
    => ret.result =
         Ok((ret.addr + (Len(ret.buf) \div W)) * W + (Len(ret.buf) % W))

\* C20: patch never shrinks the store. After a successful patch(cs) the key
\* set is the key set before united with the keys of cs, and every word of cs
\* is stored as an entry, the all-zero word included.
PatchNeverShrinks ==
  (ret.op = "patch" /\ ret.result.tag = "Ok")
    => /\ DOMAIN memory = (DOMAIN ret.pre.memory) \cup (DOMAIN ret.patch)
       /\ \A a \in DOMAIN ret.patch : memory[a] = ret.patch[a]

\* the changeset applied was diff(old, new) for a store new as long as old: the
\* result reads as new and holds an all-zero entry where new holds none
PatchNeverShrinksWitness ==
  /\ ret.op = "patch"
  /\ ret.result.tag = "Ok"
  /\ \E vnew \in Stores(MaxLen) :
       /\ vnew.len = len
       /\ ret.patch = diff(ret.pre, vnew)
       /\ \A a \in 0..(len - 1) :
            read_word(memory, len, a) = read_word(vnew.memory, vnew.len, a)
       /\ \E a \in (DOMAIN memory) \ (DOMAIN vnew.memory) :
            /\ a \in DOMAIN ret.patch
            /\ memory[a] = ZeroWord
            /\ ret.pre.memory[a] # ZeroWord

(* --------------------------- VMem::from -------------------------------- *)
FromBytes == UNION {[1..n -> Byte] : n \in 0..MaxFromLen}

\* a byte sequence is at hand and no store is built yet
InitFrom ==
  /\ input \in FromBytes
  /\ touched = {}
  /\ memory = EmptyMap
  /\ len = 0
  /\ ret = NoCall
  /\ iter = NoIter
  /\ leaves = leaves_of(memory)

\* VMem::from(bytes)
From ==
  /\ ret = NoCall
  /\ memory' = from(input).memory
  /\ len' = from(input).len
  /\ ret' = [op |-> "from", bytes |-> input]
  /\ touched' = DOMAIN from(input).memory
  /\ leaves' = grown
  /\ UNCHANGED <<iter, input>>

\* read_word on the store that was built
FromReadWord ==
  /\ ret.op \in {"from", "read_word"}
  /\ \E addr \in 0..(MaxFromLen \div W + 1) :
       ret' = [op |-> "read_word", addr |-> addr,
               result |-> read_word(memory, len, addr)]
  /\ UNCHANGED <<memory, len, iter, input, touched, leaves>>

NextFrom == From \/ FromReadWord

SpecFrom == InitFrom /\ [][NextFrom]_vars

\* the i-th W-sized chunk of bytes (i from 0), padded with zeros
padded_chunk(bytes, i) ==
  [j \in 1..W |-> IF i * W + j <= Len(bytes) THEN bytes[i * W + j] ELSE 0]

\* C5: from_bytes content. The store built from b has length ceil(|b| / W) and
\* read_word(i) is the i-th chunk of b padded with zeros, for every i below
\* that length, the final short chunk included.
FromContent ==
  ret.op = "from"
    => /\ len * W >= Len(ret.bytes)
       /\ (len - 1) * W < Len(ret.bytes)
       /\ \A i \in 0..(len - 1) :
            read_word(memory, len, i) = Some(padded_chunk(ret.bytes, i))

\* C18: from_bytes preserves sparseness. The store built from b holds an entry
\* at address i exactly when the i-th W-sized chunk of b, the last one padded
\* with zeros, has a non-zero byte.
FromSparse ==
  ret.op = "from"
    => DOMAIN memory =
         {i \in 0..((Len(ret.bytes) + W - 1) \div W - 1) :
            padded_chunk(ret.bytes, i) # ZeroWord}

(* ----------------------------- diff, patch ----------------------------- *)
\* old is the store, new is the input
InitDiff ==
  /\ \E vold \in Stores(MaxDiffLen) : memory = vold.memory /\ len = vold.len
  /\ touched = DOMAIN memory
  /\ input \in Stores(MaxDiffLen)
  /\ ret = NoCall
  /\ iter = NoIter
  /\ leaves = leaves_of(memory)

\* VMem::diff(&old, &new)
Diff ==
  /\ ret = NoCall
  /\ ret' = [op |-> "diff", result |-> diff(Here, input)]
  /\ UNCHANGED <<memory, len, iter, input, touched, leaves>>

\* patch(diff(old, new)) on a store equal to old
PatchDiff ==
  /\ ret.op = "diff"
  /\ LET r == patch(memory, len, ret.result)
     IN /\ memory' = r.memory
        /\ ret' = [op |-> "patch", patch |-> ret.result, result |-> r.result,
                   pre |-> Here]
        /\ touched' = touched \cup ((DOMAIN ret.result) \cap 0..(len - 1))
  /\ leaves' = grown
  /\ UNCHANGED <<len, iter, input>>

NextDiff == Diff \/ PatchDiff

SpecDiff == InitDiff /\ [][NextDiff]_vars

\* C7: diff minimality. diff(old, new) has a key a exactly when
\* a < min(old.len, new.len) and old.read_word(a) # new.read_word(a), and the
\* word recorded at a is new.read_word(a).
DiffMinimal ==
  ret.op = "diff"
    => /\ DOMAIN ret.result =
            {a \in 0..(MinOf(len, input.len) - 1) :
               read_word(memory, len, a) # read_word(input.memory, input.len, a)}
       /\ \A a \in DOMAIN ret.result :
            Some(ret.result[a]) = read_word(input.memory, input.len, a)

\* stores of different lengths have been diffed; one word differs, and one
\* address holds a stored zero word on one side and nothing on the other
DiffMinimalWitness ==
  /\ ret.op = "diff"
  /\ len # input.len
  /\ DOMAIN ret.result # {}
  /\ \E a \in DOMAIN input.memory :
       /\ a < len
       /\ a \notin DOMAIN memory
       /\ input.memory[a] = ZeroWord
       /\ a \notin DOMAIN ret.result

\* C8: diff/patch agreement. For old and new of equal length, patch(diff(old,
\* new)) on a copy of old returns Ok and leaves a store that reads as new at
\* every address below len.
DiffPatchAgreement ==
  (ret.op = "patch" /\ input.len = len)
    => /\ ret.result.tag = "Ok"
       /\ \A a \in 0..(len - 1) :
            read_word(memory, len, a) = read_word(input.memory, input.len, a)

\* a non-empty diff between equally long stores has been applied, one of its
\* words the zero word for an address new does not hold
DiffPatchWitness ==
  /\ ret.op = "patch"
  /\ input.len = len
  /\ Cardinality(DOMAIN ret.patch) >= 2
  /\ memory # ret.pre.memory
  /\ \E a \in DOMAIN ret.patch :
       a \notin DOMAIN input.memory /\ memory[a] = ZeroWord

(* ------------------------- the dense iterators ------------------------- *)
InitIter ==
  /\ \E v \in Stores(MaxLen) : memory = v.memory /\ len = v.len
  /\ touched = DOMAIN memory
  /\ input = <<>>
  /\ ret = NoCall
  /\ iter = NoIter
  /\ leaves = leaves_of(memory)

\* VMem::iter(): the iterator borrows the map
Iter ==
  /\ iter = NoIter
  /\ iter' = [kind |-> "iter", length |-> len, index |-> 0, calls |-> 0,
              items |-> <<>>]
  /\ ret' = [op |-> "iter"]
  /\ UNCHANGED <<memory, len, input, touched, leaves>>

\* VMem::into_iter(): the iterator owns the map; memory keeps what the store
\* held when it was moved
IntoIter ==
  /\ iter = NoIter
  /\ iter' = [kind |-> "into_iter", memory |-> memory, length |-> len,
              index |-> 0, calls |-> 0, items |-> <<>>]
  /\ ret' = [op |-> "into_iter"]
  /\ UNCHANGED <<memory, len, input, touched, leaves>>

IterNext ==
  /\ iter.kind = "iter"
  /\ iter.calls < iter.length + MaxExtraNext
  /\ LET r == iter_next(memory, iter.length, iter.index)
     IN /\ iter' = [iter EXCEPT !.index = r.index, !.calls = @ + 1,
                                !.items = IF r.item = None THEN @
                                          ELSE Append(@, r.item.val)]
        /\ ret' = [op |-> "next", result |-> r.item]
        /\ memory' = r.memory
  /\ leaves' = grown
  /\ UNCHANGED <<len, input, touched>>

IntoIterNext ==
  /\ iter.kind = "into_iter"
  /\ iter.calls < iter.length + MaxExtraNext
  /\ LET r == into_iter_next(iter.memory, iter.length, iter.index)
     IN /\ iter' = [iter EXCEPT !.index = r.index, !.calls = @ + 1,
                                !.items = IF r.item = None THEN @
                                          ELSE Append(@, r.item.val)]
        /\ ret' = [op |-> "next", result |-> r.item]
  /\ UNCHANGED <<memory, len, input, touched, leaves>>

\* the iterator that borrows the store is dropped
IterDrop ==
  /\ iter.kind \in {"iter", "chunks"}
  /\ iter' = NoIter
  /\ ret' = [op |-> "drop"]
  /\ UNCHANGED <<memory, len, input, touched, leaves>>

NextIter == Iter \/ IntoIter \/ IterNext \/ IntoIterNext \/ IterDrop

SpecIter == InitIter /\ [][NextIter]_vars

\* C10: dense coverage. The owning and the borrowing iterator yield exactly
\* len items, the i-th (from 0) equal to read_word(i), and every later call to
\* next returns None.
DenseCoverage ==
  iter.kind \in {"iter", "into_iter"}
    => /\ Len(iter.items) = MinOf(iter.calls, len)
       /\ \A i \in 1..Len(iter.items) :
            Some(iter.items[i]) = read_word(memory, len, i - 1)
       /\ ret.op = "next" => (ret.result = None <=> iter.calls > len)

\* the owning iterator of a store with stored and absent words has been
\* called past its end
DenseCoverageWitness ==
  /\ iter.kind = "into_iter"
  /\ ret.op = "next"
  /\ ret.result = None
  /\ iter.calls = len + MaxExtraNext
  /\ Len(iter.items) = len
  /\ len >= 2
  /\ DOMAIN memory # {}
  /\ DOMAIN memory # 0..(len - 1)

(* ------------------------ chunks_adjacent_content ---------------------- *)
InitChunks ==
  /\ \E v \in Stores(MaxChunkLen) : memory = v.memory /\ len = v.len
  /\ touched = DOMAIN memory
  /\ input = <<>>
  /\ ret = NoCall
  /\ iter = NoIter
  /\ leaves = leaves_of(memory)

\* VMem::chunks_adjacent_content(chunk_size): pos counts the entries taken
\* from memory.iter().peekable()
ChunksAdjacentContent ==
  /\ iter = NoIter
  /\ \E chunk_size \in 0..MaxChunkSize :
       iter' = [kind |-> "chunks", chunk_size |-> chunk_size, pos |-> 0,
                calls |-> 0, chunks |-> <<>>]
  /\ ret' = [op |-> "chunks_adjacent_content"]
  /\ UNCHANGED <<memory, len, input, touched, leaves>>

ChunksNext ==
  /\ iter.kind = "chunks"
  /\ iter.calls < Len(iter.chunks) + MaxExtraNext
  /\ LET r == chunks_next(btree_iter(memory), iter.pos, iter.chunk_size)
     IN /\ iter' = [iter EXCEPT !.pos = r.pos, !.calls = @ + 1,
                                !.chunks = IF r.item = None THEN @
                                           ELSE Append(@, r.item.val)]
        /\ ret' = [op |-> "chunks_next", result |-> r.item]
  /\ UNCHANGED <<memory, len, input, touched, leaves>>

NextChunks == ChunksAdjacentContent \/ ChunksNext \/ IterDrop

SpecChunks == InitChunks /\ [][NextChunks]_vars

\* C4: adjacency chunks are contiguous runs. In every chunk yielded, the
\* address of each entry after the first is the address of the entry before it
\* plus 1.
ChunksContiguous ==
  (ret.op = "chunks_next" /\ ret.result.tag = "Some")
    => \A j \in 2..Len(ret.result.val) :
         ret.result.val[j].addr = ret.result.val[j - 1].addr + 1

\* the chunks yielded so far, one after the other
RECURSIVE concat(_)
concat(chunks) ==
  IF chunks = <<>> THEN <<>> ELSE Head(chunks) \o concat(Tail(chunks))

\* C16: adjacency chunks partition the present entries. Every chunk yielded
\* is non-empty, the chunks yielded so far concatenate to the entries of the
\* store taken so far in ascending address order, and next returns None
\* exactly when every entry has been yielded.
ChunksPartition ==
  iter.kind = "chunks"
    => /\ \A c \in 1..Len(iter.chunks) : iter.chunks[c] # <<>>
       /\ concat(iter.chunks) = SubSeq(btree_iter(memory), 1, iter.pos)
       /\ \A j \in 1..Len(concat(iter.chunks)) :
            /\ concat(iter.chunks)[j].addr \in DOMAIN memory
            /\ concat(iter.chunks)[j].word = memory[concat(iter.chunks)[j].addr]
            /\ j > 1 => concat(iter.chunks)[j - 1].addr < concat(iter.chunks)[j].addr
       /\ ret.op = "chunks_next"
            => IF ret.result = None
                 THEN /\ iter.calls > Len(iter.chunks)
                      /\ Len(concat(iter.chunks)) = Cardinality(DOMAIN memory)
                 ELSE iter.calls = Len(iter.chunks)

\* a store with a gap between its entries has been chunked into more than one
\* chunk and next has returned None
ChunksPartitionWitness ==
  /\ iter.kind = "chunks"
  /\ ret.op = "chunks_next"
  /\ ret.result = None
  /\ Len(iter.chunks) >= 2
  /\ \E a \in 0..(len - 1) :
       a \notin DOMAIN memory /\ a - 1 \in DOMAIN memory /\ a + 1 \in DOMAIN memory
  /\ Len(concat(iter.chunks)) = Cardinality(DOMAIN memory)

\* C17: adjacency chunk size cap. No chunk yielded by
\* chunks_adjacent_content(chunk_size) has more than chunk_size entries, for
\* every chunk_size, 0 and 1 included.
ChunkSizeCap ==
  (ret.op = "chunks_next" /\ ret.result.tag = "Some")
    => Len(ret.result.val) <= iter.chunk_size

(* ---------------------- the read-only operations ----------------------- *)
\* a store, and a second store for diff
InitRead ==
  /\ \E v \in Stores(MaxLen) : memory = v.memory /\ len = v.len
  /\ touched = DOMAIN memory
  /\ input \in Stores(MaxPeerLen)
  /\ ret = NoCall
  /\ iter = NoIter
  /\ leaves = leaves_of(memory)

\* read_at on a buffer filled with ones
ReadAtOnes == ReadAtOf({[j \in 1..n |-> 1] : n \in 0..MaxBufLen})

NextRead ==
  \/ Return
  \/ ReadWord
  \/ ReadAtOnes
  \/ Diff
  \/ Iter
  \/ IterNext
  \/ ChunksAdjacentContent
  \/ ChunksNext
  \/ IterDrop

SpecRead == InitRead /\ [][NextRead]_vars

\* C15: read-only operations do not materialize. read_word, read_at, diff,
\* every step of the borrowing iterator and every step of
\* chunks_adjacent_content leave the keys and the words of the store (and of
\* the second operand of diff) as they were.
ReadOnlyFrame ==
  [][ret'.op \in {"read_word", "read_at", "diff", "next", "chunks_next"}
       => memory' = memory /\ len' = len /\ input' = input]_vars

\* the borrowing iterator has yielded the zero word for an address that is
\* still absent from the store
ReadOnlyFrameWitness ==
  /\ iter.kind = "iter"
  /\ ret.op = "next"
  /\ ret.result = Some(ZeroWord)
  /\ iter.index - 1 \notin DOMAIN memory
  /\ DOMAIN memory # {}

====
